---- MODULE Spec2Model ----
(***************************************************************************)
(* A model of QMigrate/util.py: the sample arithmetic (time2sample,        *)
(* trim2sample) on IEEE-754 binary64 values, the Gaussian kernels, the     *)
(* directory helper, the logging bootstrap, the timing decorator and the   *)
(* exception classes.                                                      *)
(***************************************************************************)
EXTENDS Integers, Sequences, FiniteSets, TLC

VARIABLES arith, kernel, fs, mk, root, lg, timer, clock

(***************************************************************************)
(* Natural numbers wider than the checker's integers, as little-endian     *)
(* sequences of limbs; <<>> is zero and the top limb is never 0.  They     *)
(* carry the 53-bit significands of Python floats.                         *)
(***************************************************************************)
LimbBase == 2 ^ 15

Max(a, b) == IF a >= b THEN a ELSE b

Abs(n) == IF n < 0 THEN -n ELSE n

RECURSIVE BigNorm(_)
BigNorm(a) ==
  IF a = <<>> THEN <<>>
  ELSE IF a[Len(a)] = 0 THEN BigNorm(SubSeq(a, 1, Len(a) - 1))
  ELSE a

RECURSIVE BigFromInt(_)
BigFromInt(n) ==
  IF n = 0 THEN <<>>
  ELSE <<n % LimbBase>> \o BigFromInt(n \div LimbBase)

RECURSIVE BigToInt(_)
BigToInt(a) ==
  IF a = <<>> THEN 0
  ELSE a[1] + LimbBase * BigToInt(Tail(a))

RECURSIVE BigMulCarry(_, _, _)
BigMulCarry(a, c, carry) ==
  IF a = <<>> THEN BigFromInt(carry)
  ELSE LET p == a[1] * c + carry
       IN  <<p % LimbBase>> \o BigMulCarry(Tail(a), c, p \div LimbBase)

\* a * c for a small factor 0 <= c <= LimbBase
BigMulSmall(a, c) == BigNorm(BigMulCarry(a, c, 0))

\* Long division by a small divisor 1 <= d <= LimbBase, from the top limb
\* down: [q |-> quotient limbs, r |-> remainder]
RECURSIVE BigDivRem(_, _, _)
BigDivRem(a, d, i) ==
  IF i > Len(a) THEN [q |-> <<>>, r |-> 0]
  ELSE LET hi  == BigDivRem(a, d, i + 1)
           cur == hi.r * LimbBase + a[i]
       IN  [q |-> <<cur \div d>> \o hi.q, r |-> cur % d]

BigDivSmall(a, d) ==
  LET x == BigDivRem(a, d, 1) IN [q |-> BigNorm(x.q), r |-> x.r]

\* The number of bits of n >= 0
RECURSIVE IntBitLen(_)
IntBitLen(n) == IF n = 0 THEN 0 ELSE 1 + IntBitLen(n \div 2)

LimbBits == IntBitLen(LimbBase) - 1

BigBitLen(a) ==
  IF a = <<>> THEN 0 ELSE LimbBits * (Len(a) - 1) + IntBitLen(a[Len(a)])

BigIsOdd(a) == a # <<>> /\ a[1] % 2 = 1

RECURSIVE Zeros(_)
Zeros(n) == IF n = 0 THEN <<>> ELSE <<0>> \o Zeros(n - 1)

\* a * 2^s
BigShl(a, s) ==
  IF a = <<>> THEN <<>>
  ELSE Zeros(s \div LimbBits) \o BigMulSmall(a, 2 ^ (s % LimbBits))

\* a \div 2^s, with sticky: whether a 1 bit was shifted out
BigShr(a, s) ==
  LET whole == s \div LimbBits
      low   == SubSeq(a, 1, IF whole < Len(a) THEN whole ELSE Len(a))
      high  == IF whole < Len(a) THEN SubSeq(a, whole + 1, Len(a)) ELSE <<>>
      d     == BigDivSmall(high, 2 ^ (s % LimbBits))
  IN  [q |-> d.q, sticky |-> (d.r # 0) \/ (\E i \in 1..Len(low) : low[i] # 0)]

RECURSIVE BigIncAt(_, _)
BigIncAt(a, i) ==
  IF i > Len(a) THEN a \o <<1>>
  ELSE IF a[i] + 1 < LimbBase THEN [a EXCEPT ![i] = a[i] + 1]
  ELSE BigIncAt([a EXCEPT ![i] = 0], i + 1)

BigInc(a) == BigIncAt(a, 1)

\* -1, 0, 1 as a < b, a = b, a > b
RECURSIVE BigCmpFrom(_, _, _)
BigCmpFrom(a, b, i) ==
  IF i = 0 THEN 0
  ELSE IF a[i] < b[i] THEN -1
  ELSE IF a[i] > b[i] THEN 1
  ELSE BigCmpFrom(a, b, i - 1)

BigCmp(a, b) ==
  IF Len(a) < Len(b) THEN -1
  ELSE IF Len(a) > Len(b) THEN 1
  ELSE BigCmpFrom(a, b, Len(a))

(***************************************************************************)
(* Python floats: IEEE-754 binary64, round to nearest, ties to even.  A    *)
(* float is [neg, m, e] of value (-1)^neg * m * 2^e with m of exactly      *)
(* Precision bits, or m = <<>> for zero.  The values of this module stay   *)
(* far from the subnormal and overflow ranges.                             *)
(***************************************************************************)
Precision == 53

FloatZero == [neg |-> FALSE, m |-> <<>>, e |-> 0]

\* The float nearest to n / d * 2^e0 for a wide n > 0 and a small d
RoundToFloat(neg, n, d, e0) ==
  IF n = <<>> THEN [FloatZero EXCEPT !.neg = neg]
  ELSE
    LET s     == Max(0, Precision + 2 + IntBitLen(d) - BigBitLen(n))
        quo   == BigDivSmall(BigShl(n, s), d)
        drop  == BigBitLen(quo.q) - Precision
        q1    == BigShr(quo.q, drop - 1)
        half  == BigIsOdd(q1.q)
        m0    == BigShr(q1.q, 1).q
        rest  == q1.sticky \/ quo.r # 0
        m1    == IF half /\ (rest \/ BigIsOdd(m0)) THEN BigInc(m0) ELSE m0
        carry == BigBitLen(m1) > Precision
    IN  [neg |-> neg,
         m   |-> IF carry THEN BigShr(m1, 1).q ELSE m1,
         e   |-> e0 - s + drop + (IF carry THEN 1 ELSE 0)]

\* The float of the decimal literal n / d, and the float quotient of two
\* integer-valued floats
FloatOfRatio(n, d) == RoundToFloat(n < 0, BigFromInt(Abs(n)), d, 0)

\* The float product x * c of a float x and an integer 0 < c <= LimbBase,
\* which is a float exactly
FloatMulInt(x, c) == RoundToFloat(x.neg, BigMulSmall(x.m, c), 1, x.e)

\* The integer part of |x| with what follows the binary point:
\* [ip, half, rest]: fraction >= 1/2, and a 1 bit below the half bit
FloatSplit(x) ==
  IF x.m = <<>> THEN [ip |-> 0, half |-> FALSE, rest |-> FALSE]
  ELSE IF x.e >= 0
    THEN [ip |-> BigToInt(BigShl(x.m, x.e)), half |-> FALSE, rest |-> FALSE]
  ELSE LET q1 == BigShr(x.m, (-x.e) - 1)
       IN  [ip   |-> BigToInt(BigShr(q1.q, 1).q),
            half |-> BigIsOdd(q1.q),
            rest |-> q1.sticky]

FloatIsInteger(x) == LET p == FloatSplit(x) IN ~p.half /\ ~p.rest

\* a <= b
FloatLeq(a, b) ==
  LET mag == IF a.m = <<>> \/ b.m = <<>>
               THEN (IF a.m = <<>> THEN (IF b.m = <<>> THEN 0 ELSE -1) ELSE 1)
             ELSE IF a.e # b.e THEN (IF a.e < b.e THEN -1 ELSE 1)
             ELSE BigCmp(a.m, b.m)
      za  == a.m = <<>>
      zb  == b.m = <<>>
  IN  CASE za /\ zb -> TRUE
        [] za -> ~b.neg
        [] zb -> a.neg
        [] a.neg /\ ~b.neg -> TRUE
        [] ~a.neg /\ b.neg -> FALSE
        [] ~a.neg /\ ~b.neg -> mag <= 0
        [] OTHER -> mag >= 0

\* np.ceil(x), as an integer
Ceil(x) ==
  LET p == FloatSplit(x)
  IN  IF x.neg THEN -p.ip
      ELSE p.ip + (IF p.half \/ p.rest THEN 1 ELSE 0)

\* int(x): truncation toward zero
IntTrunc(x) == LET p == FloatSplit(x) IN IF x.neg THEN -p.ip ELSE p.ip

\* round(x): nearest integer, ties to even
Round(x) ==
  LET p == FloatSplit(x)
      n == p.ip + (IF p.half /\ (p.rest \/ p.ip % 2 = 1) THEN 1 ELSE 0)
  IN  IF x.neg THEN -n ELSE n

(***************************************************************************)
(* Sample arithmetic                                                       *)
(***************************************************************************)
MillisPerSecond == 1000

\* int(time*int(sampling_rate)): the rounding left out
time2sampleTruncating(time, sampling_rate) ==
  IntTrunc(FloatMulInt(time, sampling_rate))

\* int(round(time*int(sampling_rate))), for an integer sampling_rate, which
\* int() leaves as it is
time2sample(time, sampling_rate) == Round(FloatMulInt(time, sampling_rate))

\* int(np.ceil(time * sampling_rate) / sampling_rate * 1000) / 1000
trim2sample(time, sampling_rate) ==
  LET samples == Ceil(FloatMulInt(time, sampling_rate))
      secs    == FloatOfRatio(samples, sampling_rate)
      millis  == IntTrunc(FloatMulInt(secs, MillisPerSecond))
  IN  FloatOfRatio(millis, MillisPerSecond)

(***************************************************************************)
(* Gaussian kernels.  Coordinates, sigmas and exponents are exact          *)
(* rationals [num, den] in lowest terms; a kernel value a * exp(q) is the  *)
(* pair [a, ex] of its amplitude and its exponent, so that two values are  *)
(* equal exactly when both agree, and a value is 1.0 exactly when a = 1    *)
(* and q = 0.                                                              *)
(***************************************************************************)
RECURSIVE GCD(_, _)
GCD(a, b) == IF b = 0 THEN a ELSE GCD(b, a % b)

Rat(n, d) ==
  LET g == GCD(Abs(n), Abs(d))
      sg == IF d < 0 THEN -1 ELSE 1
  IN  [num |-> sg * (n \div g), den |-> sg * (d \div g)]

RatOfInt(n) == Rat(n, 1)

RatAdd(p, q) == Rat(p.num * q.den + q.num * p.den, p.den * q.den)

RatNeg(p) == [p EXCEPT !.num = -p.num]

RatSub(p, q) == RatAdd(p, RatNeg(q))

RatMul(p, q) == Rat(p.num * q.num, p.den * q.den)

RatDiv(p, q) == Rat(p.num * q.den, p.den * q.num)

\* a * np.exp(q)
Exp(q) == [a |-> RatOfInt(1), ex |-> q]

Scale(a, v) == [v EXCEPT !.a = RatMul(a, v.a)]

Times(v, w) == [a |-> RatMul(v.a, w.a), ex |-> RatAdd(v.ex, w.ex)]

One == Exp(RatOfInt(0))

\* np.linspace(start, stop, num, endpoint=False): num points that stop short
\* of stop
LinspaceNoEndpoint(start, stop, num) ==
  LET step == RatDiv(RatSub(stop, start), RatOfInt(num))
  IN  [i \in 0..(num - 1) |-> RatAdd(start, RatMul(RatOfInt(i), step))]

\* np.linspace(start, stop, num): num evenly spaced points, both ends
\* included; the array is indexed from 0
Linspace(start, stop, num) ==
  IF num = 1 THEN [i \in {0} |-> start]
  ELSE LET step == RatDiv(RatSub(stop, start), RatOfInt(num - 1))
       IN  [i \in 0..(num - 1) |-> RatAdd(start, RatMul(RatOfInt(i), step))]

Size(x) == Cardinality(DOMAIN x)

\* np.meshgrid(x, y, z): numpy's default indexing="xy" swaps the first two
\* axes
MeshgridXY(x, y, z) ==
  LET idx == (0..(Size(y) - 1)) \X (0..(Size(x) - 1)) \X (0..(Size(z) - 1))
  IN  [ix |-> [p \in idx |-> x[p[2]]],
       iy |-> [p \in idx |-> y[p[1]]],
       iz |-> [p \in idx |-> z[p[3]]]]

\* np.meshgrid(x, y, z, indexing="ij"): three arrays of shape
\* (len(x), len(y), len(z))
Meshgrid(x, y, z) ==
  LET idx == (0..(Size(x) - 1)) \X (0..(Size(y) - 1)) \X (0..(Size(z) - 1))
  IN  [ix |-> [p \in idx |-> x[p[1]]],
       iy |-> [p \in idx |-> y[p[2]]],
       iz |-> [p \in idx |-> z[p[3]]]]

\* f = a * np.exp(-1. * ((x - b) ** 2) / (2 * (c ** 2))), at one x
gaussian_1d(x, a, b, c) ==
  LET d == RatSub(x, b)
  IN  Scale(a, Exp(RatDiv(RatMul(RatOfInt(-1), RatMul(d, d)),
                          RatMul(RatOfInt(2), RatMul(c, c)))))

\* np.isscalar(sgm): a scalar sigma is a rational, a vector a 3-tuple
IsScalar(sgm) == DOMAIN sgm = {"num", "den"}

gaussian_3d(nx, ny, nz, sgm) ==
  LET nx2  == Rat(nx - 1, 2)
      ny2  == Rat(ny - 1, 2)
      nz2  == Rat(nz - 1, 2)
      x    == Linspace(RatNeg(nx2), nx2, nx)
      y    == Linspace(RatNeg(ny2), ny2, ny)
      z    == Linspace(RatNeg(nz2), nz2, nz)
      mesh == Meshgrid(x, y, z)
      sgm3 == IF IsScalar(sgm) THEN <<sgm, sgm, sgm>> ELSE sgm
      sx   == sgm3[1]
      sy   == sgm3[2]
      sz   == sgm3[3]
      two  == RatOfInt(2)
      Term(i, s) == RatDiv(RatMul(i, i), RatMul(RatMul(two, s), s))
  IN  [p \in DOMAIN mesh.ix |->
         Exp(RatSub(RatSub(RatNeg(Term(mesh.ix[p], sx)), Term(mesh.iy[p], sy)),
                    Term(mesh.iz[p], sz)))]

(***************************************************************************)
(* The filesystem: the directories and the regular files that exist, as    *)
(* paths relative to the working directory <<>>.  A path is a sequence of  *)
(* names and a name is [stem, suffix], so that "run.log" is the stem "run" *)
(* with the suffix ".log".                                                 *)
(***************************************************************************)
Name(stem) == [stem |-> stem, suffix |-> ""]

Parent(p) == IF p = <<>> THEN <<>> ELSE SubSeq(p, 1, Len(p) - 1)

Ancestors(p) == {SubSeq(p, 1, i) : i \in 1..(Len(p) - 1)}

IsDir(f, p) == p = <<>> \/ p \in f.dirs

Raised(f, err) == [fs |-> f, err |-> err]

\* os.mkdir(p)
OsMkdir(f, p) ==
  IF p = <<>> \/ p \in f.dirs \cup f.files THEN Raised(f, "FileExistsError")
  ELSE IF Ancestors(p) \cap f.files # {} THEN Raised(f, "NotADirectoryError")
  ELSE IF ~(Ancestors(p) \subseteq f.dirs) THEN Raised(f, "FileNotFoundError")
  ELSE [fs |-> [f EXCEPT !.dirs = @ \cup {p}], err |-> "none"]

\* Path.mkdir(parents=parents, exist_ok=exist_ok): os.mkdir; on
\* FileNotFoundError with parents, the parent first and then p again; any
\* other OSError is raised unless exist_ok and p is a directory
RECURSIVE PathMkdir(_, _, _, _)
PathMkdir(f, p, parents, exist_ok) ==
  LET made == OsMkdir(f, p)
  IN  IF made.err = "none" THEN made
      ELSE IF made.err = "FileNotFoundError"
        THEN IF ~parents \/ p = <<>> THEN made
             ELSE LET up == PathMkdir(f, Parent(p), TRUE, TRUE)
                  IN  IF up.err # "none" THEN up
                      ELSE PathMkdir(up.fs, p, FALSE, exist_ok)
      ELSE IF ~exist_ok \/ ~IsDir(f, p) THEN made
      ELSE [fs |-> f, err |-> "none"]

\* make_directories with both mkdir calls lacking exist_ok=True
make_directoriesNoExistOk(f, run, subdir) ==
  LET base == PathMkdir(f, run, FALSE, FALSE)
  IN  IF base.err # "none" THEN base
      ELSE IF subdir # <<>> THEN PathMkdir(base.fs, run \o subdir, TRUE, FALSE)
      ELSE base

\* make_directories(run, subdir): the filesystem after the call and the
\* error it raised; subdir is <<>> for None and for the empty string
make_directories(f, run, subdir) ==
  LET base == PathMkdir(f, run, FALSE, TRUE)
  IN  IF base.err # "none" THEN base
      ELSE IF subdir # <<>> THEN PathMkdir(base.fs, run \o subdir, TRUE, TRUE)
      ELSE base

(***************************************************************************)
(* The exception classes.  A message is the sequence of its characters,    *)
(* one piece per string literal of the source: Python joins adjacent       *)
(* literals with nothing between them.  An exception is [kind, args] with  *)
(* args the message passed to Exception.__init__, and msg where the class  *)
(* sets that attribute.                                                    *)
(***************************************************************************)
\* ArchiveEmptyException: msg
ArchiveEmptyMessage ==
    <<"A", "r", "c", "h", "i", "v", "e", "E", "m", "p", "t", "y", "E", "x",
      "c", "e", "p", "t", "i", "o", "n", ":", " ", "N", "o", " ", "d", "a",
      "t", "a", " ", "w", "a", "s", " ", "a", "v", "a", "i", "l", "a", "b",
      "l", "e", " ", "f", "o", "r", " ", "t", "h", "i", "s", " ", "t", "i",
      "m", "e", "s", "t", "e", "p", ".">>

\* ArchiveEmptyException: self.msg
ArchiveEmptyLogMessage ==
    <<"\t", "\t", "N", "o", " ", "f", "i", "l", "e", "s", " ", "f", "o", "u",
      "n", "d", " ", "i", "n", " ", "a", "r", "c", "h", "i", "v", "e", " ",
      "f", "o", "r", " ", "t", "h", "i", "s", " ", "t", "i", "m", "e", " ",
      "p", "e", "r", "i", "o", "d", ".">>

\* DataGapException: msg
DataGapMessage ==
    <<"D", "a", "t", "a", "G", "a", "p", "E", "x", "c", "e", "p", "t", "i",
      "o", "n", ":", " ", "A", "l", "l", " ", "a", "v", "a", "i", "l", "a",
      "b", "l", "e", " ", "d", "a", "t", "a", " ", "h", "a", "d", " ", "g",
      "a", "p", "s", " ", "f", "o", "r", " ", "t", "h", "i", "s", " ">>
    \o
    <<"t", "i", "m", "e", "s", "t", "e", "p", ".", "\n", " ", " ", " ", " ",
      "O", "R", ":", " ", "n", "o", " ", "d", "a", "t", "a", " ", "p", "r",
      "e", "s", "e", "n", "t", " ", "i", "n", " ", "t", "h", "e", " ", "a",
      "r", "c", "h", "i", "v", "e", " ", "f", "o", "r", " ", "t", "h", "e">>
    \o
    <<"s", "e", "l", "e", "c", "t", "e", "d", " ", "s", "t", "a", "t", "i",
      "o", "n", "s", ".">>

\* DataGapException: self.msg
DataGapLogMessage ==
    <<"\t", "\t", "A", "l", "l", " ", "a", "v", "a", "i", "l", "a", "b", "l",
      "e", " ", "d", "a", "t", "a", " ", "f", "o", "r", " ", "t", "h", "i",
      "s", " ", "t", "i", "m", "e", " ", "p", "e", "r", "i", "o", "d", " ",
      "c", "o", "n", "t", "a", "i", "n", "s", " ", "g", "a", "p", "s">>
    \o
    <<"\n", "\t", "\t", "o", "r", " ", "d", "a", "t", "a", " ", "n", "o",
      "t", " ", "a", "v", "a", "i", "l", "a", "b", "l", "e", " ", "a", "t",
      " ", "s", "t", "a", "r", "t", "/", "e", "n", "d", " ", "o", "f", " ",
      "t", "i", "m", "e", " ", "p", "e", "r", "i", "o", "d">>

\* TimeSpanException: msg
TimeSpanMessage ==
    <<"T", "i", "m", "e", "S", "p", "a", "n", "E", "x", "c", "e", "p", "t",
      "i", "o", "n", ":", " ", "T", "h", "e", " ", "s", "t", "a", "r", "t",
      " ", "t", "i", "m", "e", " ", "s", "p", "e", "c", "i", "f", "i", "e",
      "d", " ", "i", "s", " ", "a", "f", "t", "e", "r", " ", "t", "h", "e",
      " ", "e", "n", "d">>
    \o
    <<" ", "t", "i", "m", "e", ".">>

ArchiveEmptyException ==
  [kind |-> "ArchiveEmptyException", args |-> <<ArchiveEmptyMessage>>,
   msg |-> ArchiveEmptyLogMessage]

DataGapException ==
  [kind |-> "DataGapException", args |-> <<DataGapMessage>>,
   msg |-> DataGapLogMessage]

TimeSpanException ==
  [kind |-> "TimeSpanException", args |-> <<TimeSpanMessage>>]

Exceptions == {ArchiveEmptyException, DataGapException, TimeSpanException}

(***************************************************************************)
(* The logging bootstrap and the root logger of Python's logging module.   *)
(***************************************************************************)
StreamHandler == [kind |-> "StreamHandler", path |-> <<>>]

FileHandler(path) == [kind |-> "FileHandler", path |-> path]

\* The root logger of a fresh process: no handler, level WARNING
FreshRoot == [handlers |-> <<>>, level |-> "WARNING"]

\* Path.with_suffix(suffix): the suffix of the last name replaced
WithSuffix(p, suffix) == [p EXCEPT ![Len(p)].suffix = suffix]

\* open(p, "a"), which logging.FileHandler(p) does as it is constructed
OpenAppend(f, p) ==
  IF p \in f.dirs THEN Raised(f, "IsADirectoryError")
  ELSE IF Ancestors(p) \cap f.files # {} THEN Raised(f, "NotADirectoryError")
  ELSE IF ~(Ancestors(p) \subseteq f.dirs) THEN Raised(f, "FileNotFoundError")
  ELSE [fs |-> [f EXCEPT !.files = @ \cup {p}], err |-> "none"]

\* logging.basicConfig(level=level, handlers=handlers): it configures the
\* root logger only if that has no handler yet, and otherwise does nothing
BasicConfig(r, level, handlers) ==
  IF Len(r.handlers) = 0
    THEN [handlers |-> handlers,
          level |-> IF level = "None" THEN r.level ELSE level]
  ELSE r

\* The handlers a call logger(logstem, log) builds
Handlers(logstem, log) ==
  IF log THEN <<FileHandler(WithSuffix(logstem, ".log")), StreamHandler>>
  ELSE <<StreamHandler>>

\* logger(logstem, log): the filesystem and the root logger after the call,
\* and the error it raised
logger(f, r, logstem, log) ==
  IF log
    THEN LET made   == PathMkdir(f, Parent(logstem), TRUE, TRUE)
             opened == OpenAppend(made.fs, WithSuffix(logstem, ".log"))
         IN  IF made.err # "none"
               THEN [fs |-> made.fs, root |-> r, err |-> made.err]
             ELSE IF opened.err # "none"
               THEN [fs |-> opened.fs, root |-> r, err |-> opened.err]
             ELSE [fs |-> opened.fs,
                   root |-> BasicConfig(r, "INFO", Handlers(logstem, log)),
                   err |-> "none"]
  ELSE [fs |-> f, root |-> BasicConfig(r, "INFO", Handlers(logstem, log)),
        err |-> "none"]

\* logging.info(msg): an unconfigured root logger is first given a stream
\* handler by basicConfig(); the record reaches every handler if the level
\* of the root logger lets INFO through.  [root, lines]
LoggingInfo(r, msg) ==
  LET r1 == IF Len(r.handlers) = 0 THEN BasicConfig(r, "None", <<StreamHandler>>)
            ELSE r
  IN  [root  |-> r1,
       lines |-> IF r1.level = "INFO"
                   THEN [i \in 1..Len(r1.handlers) |->
                           [handler |-> r1.handlers[i], msg |-> msg]]
                 ELSE <<>>]

\* " "*21 + f"Elapsed time: {time.time() - ts:6f} seconds."
ElapsedMessage(elapsed) == [text |-> "Elapsed time", seconds |-> elapsed]

(***************************************************************************)
(* The sample arithmetic as a state machine: one call record.  A caller    *)
(* writes the time as a decimal literal of milliseconds, ms / 1000, which  *)
(* Python reads as the nearest float.                                      *)
(***************************************************************************)
MaxTimeMs == 1500

MaxTrims == 2

Rates == {100, 200, 1000}

\* The values of the variables of a component that is not running
NoCall == [pc |-> "none"]

\* An empty working directory
EmptyFs == [dirs |-> {}, files |-> {}]

NoOutcome == [kind |-> "none"]

\* No wrapped function is running
TimerIdle ==
  [pc |-> "idle", ts |-> 0, outcome |-> NoOutcome, ret |-> "None",
   raised |-> NoOutcome, info |-> <<>>, lines |-> <<>>]

arithVars == <<arith>>

kernelVars == <<kernel>>

dirsVars == <<fs, mk>>

processVars == <<fs, root, lg, timer, clock>>

ArithInit ==
  /\ \E ms \in (-MaxTimeMs)..MaxTimeMs, r \in Rates :
       arith = [pc |-> "input", ms |-> ms,
                time |-> FloatOfRatio(ms, MillisPerSecond),
                sampling_rate |-> r, samples |-> 0, trimmed |-> <<>>]
  /\ kernel = NoCall /\ mk = NoCall /\ lg = NoCall
  /\ fs = EmptyFs /\ root = FreshRoot /\ timer = TimerIdle /\ clock = 0

CallTime2Sample ==
  /\ arith.pc = "input"
  /\ arith' = [arith EXCEPT !.pc = "time2sample",
                 !.samples = time2sample(arith.time, arith.sampling_rate)]
  /\ UNCHANGED <<kernelVars, dirsVars, processVars>>

CallTrim2Sample ==
  /\ arith.pc = "input"
  /\ arith' = [arith EXCEPT !.pc = "trim2sample",
                 !.trimmed = <<trim2sample(arith.time, arith.sampling_rate)>>]
  /\ UNCHANGED <<kernelVars, dirsVars, processVars>>

\* The padding already trimmed is trimmed again
CallTrim2SampleAgain ==
  /\ arith.pc = "trim2sample"
  /\ Len(arith.trimmed) < MaxTrims
  /\ arith' = [arith EXCEPT
                 !.trimmed = Append(@, trim2sample(@[Len(@)], arith.sampling_rate))]
  /\ UNCHANGED <<kernelVars, dirsVars, processVars>>

ArithNext == CallTime2Sample \/ CallTrim2Sample \/ CallTrim2SampleAgain

(***************************************************************************)
(* The kernel generator as a state machine: the grid sizes and the sigma   *)
(* of one call, then the array it returns.                                 *)
(***************************************************************************)
MaxN == 4

Sigmas == {Rat(1, 2), Rat(2, 1)}

SigmaArgs == Sigmas \cup (Sigmas \X Sigmas \X Sigmas)

KernelInit ==
  /\ \E nx \in 1..MaxN, ny \in 1..MaxN, nz \in 1..MaxN, sgm \in SigmaArgs :
       kernel = [pc |-> "input", nx |-> nx, ny |-> ny, nz |-> nz,
                 sgm |-> sgm, f |-> <<>>]
  /\ arith = NoCall /\ mk = NoCall /\ lg = NoCall
  /\ fs = EmptyFs /\ root = FreshRoot /\ timer = TimerIdle /\ clock = 0

CallGaussian3d ==
  /\ kernel.pc = "input"
  /\ kernel' = [kernel EXCEPT !.pc = "gaussian_3d",
                  !.f = gaussian_3d(kernel.nx, kernel.ny, kernel.nz, kernel.sgm)]
  /\ UNCHANGED <<arithVars, dirsVars, root, lg, timer, clock>>

KernelNext == CallGaussian3d

(***************************************************************************)
(* The directory helper as a state machine: it is called from any          *)
(* filesystem state, and mk records the last call.                         *)
(***************************************************************************)
Runs == {<<Name("out")>>, <<Name("out"), Name("run")>>}

Subdirs == {<<>>, <<Name("sub")>>, <<Name("sub"), Name("deep")>>}

Prefixes(p) == {SubSeq(p, 1, i) : i \in 1..Len(p)}

DirPaths == UNION {Prefixes(run \o subdir) : run \in Runs, subdir \in Subdirs}

\* Every directory and every file lies in a directory
Consistent(f) ==
  /\ f.dirs \cap f.files = {}
  /\ \A p \in f.dirs \cup f.files : Ancestors(p) \subseteq f.dirs

DirsInit ==
  /\ \E d \in SUBSET DirPaths, fl \in SUBSET DirPaths :
       /\ fs = [dirs |-> d, files |-> fl]
       /\ Consistent(fs)
  /\ mk = NoCall /\ arith = NoCall /\ kernel = NoCall /\ lg = NoCall
  /\ root = FreshRoot /\ timer = TimerIdle /\ clock = 0

MakeDirectories ==
  \E run \in Runs, subdir \in Subdirs :
    LET r == make_directories(fs, run, subdir)
    IN  /\ fs' = r.fs
        /\ mk' = [pc |-> "make_directories", run |-> run, subdir |-> subdir,
                  raised |-> r.err, before |-> fs,
                  again |-> /\ mk.pc = "make_directories"
                            /\ mk.run = run /\ mk.subdir = subdir]
        /\ UNCHANGED <<arithVars, kernelVars, root, lg, timer, clock>>

DirsNext == MakeDirectories

(***************************************************************************)
(* The process: the logging bootstrap and a function wrapped by timeit,    *)
(* from a fresh process in an empty working directory.  lg records the     *)
(* last call of logger; timer is the wrapper's invocation: where it is,    *)
(* what f did, what the wrapper passed to logging.info and what the        *)
(* handlers wrote.                                                         *)
(***************************************************************************)
MaxClock == 2

Logstems == {<<Name("run")>>, <<Name("logs"), Name("event")>>}

FValues == {"None", "picks"}

ProcessInit ==
  /\ fs = EmptyFs /\ root = FreshRoot /\ lg = NoCall
  /\ timer = TimerIdle /\ clock = 0
  /\ arith = NoCall /\ kernel = NoCall /\ mk = NoCall

Logger ==
  \E logstem \in Logstems, log \in BOOLEAN :
    LET r == logger(fs, root, logstem, log)
    IN  /\ fs' = r.fs
        /\ root' = r.root
        /\ lg' = [pc |-> "logger", logstem |-> logstem, log |-> log,
                  raised |-> r.err]
        /\ UNCHANGED <<timer, clock, arith, kernel, mk>>

\* wrap(*args, **kw): ts = time.time(), and f is entered
WrapCall ==
  /\ timer.pc \in {"idle", "returned", "raised"}
  /\ timer' = [TimerIdle EXCEPT !.pc = "f_running", !.ts = clock]
  /\ UNCHANGED <<fs, root, lg, clock, arith, kernel, mk>>

\* f returns a value after some time
FReturns ==
  \E v \in FValues, d \in 0..MaxClock :
    /\ timer.pc = "f_running"
    /\ clock + d <= MaxClock
    /\ clock' = clock + d
    /\ timer' = [timer EXCEPT !.pc = "f_returned",
                   !.outcome = [kind |-> "return", value |-> v]]
    /\ UNCHANGED <<fs, root, lg, arith, kernel, mk>>

\* f raises: wrap has no try, and the exception leaves it as it is
FRaises ==
  \E e \in Exceptions, d \in 0..MaxClock :
    /\ timer.pc = "f_running"
    /\ clock + d <= MaxClock
    /\ clock' = clock + d
    /\ timer' = [timer EXCEPT !.pc = "raised",
                   !.outcome = [kind |-> "raise", value |-> e],
                   !.raised = [kind |-> "raise", value |-> e]]
    /\ UNCHANGED <<fs, root, lg, arith, kernel, mk>>

\* logging.info(" "*21 + f"Elapsed time: {time.time() - ts:6f} seconds.")
WrapLog ==
  /\ timer.pc = "f_returned"
  /\ LET msg == ElapsedMessage(clock - timer.ts)
         r   == LoggingInfo(root, msg)
     IN  /\ root' = r.root
         /\ timer' = [timer EXCEPT !.pc = "logged",
                        !.info = Append(@, msg), !.lines = @ \o r.lines]
  /\ UNCHANGED <<fs, lg, clock, arith, kernel, mk>>

\* a wrapper that ends without its return statement
WrapReturnNone ==
  /\ timer.pc = "logged"
  /\ timer' = [timer EXCEPT !.pc = "returned", !.ret = "None"]
  /\ UNCHANGED <<fs, root, lg, clock, arith, kernel, mk>>

\* return result
WrapReturn ==
  /\ timer.pc = "logged"
  /\ timer' = [timer EXCEPT !.pc = "returned", !.ret = timer.outcome.value]
  /\ UNCHANGED <<fs, root, lg, clock, arith, kernel, mk>>

ProcessNext ==
  Logger \/ WrapCall \/ FReturns \/ FRaises \/ WrapLog \/ WrapReturn

vars == <<arith, kernel, fs, mk, root, lg, timer, clock>>

SpecSample == ArithInit /\ [][ArithNext]_vars

SpecKernel == KernelInit /\ [][KernelNext]_vars

SpecDirs == DirsInit /\ [][DirsNext]_vars

SpecProcess == ProcessInit /\ [][ProcessNext]_vars

(***************************************************************************)
(* Sample arithmetic: properties                                           *)
(***************************************************************************)
Trimmed == arith.pc = "trim2sample" /\ arith.ms >= 0

\* C1: for t >= 0 the padding trim2sample returns is never smaller than the
\* padding asked for: trim2sample(t, r) >= t
C1_TrimNeverSmaller == Trimmed => FloatLeq(arith.time, arith.trimmed[1])

\* C2: for t >= 0, trim2sample(t, r) * r is a whole number of samples, and
\* at least t * r
C2_TrimIsWholeSamples ==
  Trimmed =>
    LET p == FloatMulInt(arith.trimmed[1], arith.sampling_rate)
    IN  /\ FloatIsInteger(p)
        /\ FloatLeq(FloatMulInt(arith.time, arith.sampling_rate), p)

\* C8: trim2sample is idempotent: trimming a trimmed padding returns it
C8_TrimIdempotent ==
  (Trimmed /\ Len(arith.trimmed) >= 2) => arith.trimmed[2] = arith.trimmed[1]

\* C4: time2sample(time, r) is the integer nearest to the product time * r,
\* an exact half going to the even integer, for negative times too; it is
\* within half a sample of the time written: |n / r - ms / 1000| <= 0.5 / r;
\* and time2sample(1.5, 100) = 150
C4_Time2SampleNearest ==
  arith.pc = "time2sample" =>
    LET n  == arith.samples
        p  == FloatMulInt(arith.time, arith.sampling_rate)
        lo == FloatOfRatio(2 * n - 1, 2)
        hi == FloatOfRatio(2 * n + 1, 2)
    IN  /\ FloatLeq(lo, p) /\ FloatLeq(p, hi)
        /\ (p = lo \/ p = hi) => n % 2 = 0
        /\ 2 * Abs(n * MillisPerSecond - arith.ms * arith.sampling_rate)
             <= MillisPerSecond
        /\ (arith.ms = 1500 /\ arith.sampling_rate = 100) => n = 150

\* a negative time on an exact half sample: -0.025 s at 100 Hz is -2.5
C4_Witness ==
  /\ arith.pc = "time2sample"
  /\ arith.ms = -25 /\ arith.sampling_rate = 100
  /\ FloatMulInt(arith.time, arith.sampling_rate) = FloatOfRatio(-5, 2)
  /\ arith.samples = -2

(***************************************************************************)
(* Gaussian kernels: properties                                            *)
(***************************************************************************)
KernelDone == kernel.pc = "gaussian_3d"

\* floor((n - 1) / 2)
Centre(n) == (n - 1) \div 2

CentreIndex == <<Centre(kernel.nx), Centre(kernel.ny), Centre(kernel.nz)>>

AllOdd == kernel.nx % 2 = 1 /\ kernel.ny % 2 = 1 /\ kernel.nz % 2 = 1

\* The i-th of n evenly spaced coordinates on [-(n-1)/2, +(n-1)/2]
Coordinate(i, n) == Rat(2 * i - (n - 1), 2)

Sigma3 == IF IsScalar(kernel.sgm) THEN <<kernel.sgm, kernel.sgm, kernel.sgm>>
          ELSE kernel.sgm

\* C3 as stated: for all positive nx, ny, nz, odd or even, the kernel is
\* exactly 1.0 at the index (floor((nx-1)/2), floor((ny-1)/2), floor((nz-1)/2))
C3_CentreIsOne == KernelDone => kernel.f[CentreIndex] = One

\* The grid of an axis of n points, as gaussian_3d builds it
Axis(n) == Linspace(RatNeg(Rat(n - 1, 2)), Rat(n - 1, 2), n)

\* C3 as amended: for odd nx, ny, nz and every sigma the kernel is exactly
\* 1.0 at the index ((nx-1)/2, (ny-1)/2, (nz-1)/2), where the grid
\* coordinate is 0 on every axis; on an axis of even size n the coordinate
\* at floor((n-1)/2) is -1/2, not 0
C3_OddCentreIsOne ==
  KernelDone =>
    /\ \A n \in {kernel.nx, kernel.ny, kernel.nz} :
         Axis(n)[Centre(n)] = IF n % 2 = 1 THEN RatOfInt(0) ELSE Rat(-1, 2)
    /\ AllOdd =>
         /\ CentreIndex \in DOMAIN kernel.f
         /\ kernel.f[CentreIndex] = One

C3_Witness ==
  /\ KernelDone /\ AllOdd
  /\ kernel.nx = 3 /\ kernel.ny = 1 /\ kernel.nz = 3
  /\ kernel.f[<<1, 0, 1>>] = One

\* C9: the kernel has shape (nx, ny, nz) and its value at [i, j, k] is
\* gaussian_1d(x_i, 1, 0, sx) * gaussian_1d(y_j, 1, 0, sy)
\* * gaussian_1d(z_k, 1, 0, sz)
C9_OuterProduct ==
  KernelDone =>
    /\ DOMAIN kernel.f
         = (0..(kernel.nx - 1)) \X (0..(kernel.ny - 1)) \X (0..(kernel.nz - 1))
    /\ \A p \in DOMAIN kernel.f :
         kernel.f[p] =
           Times(Times(gaussian_1d(Coordinate(p[1], kernel.nx), RatOfInt(1),
                                   RatOfInt(0), Sigma3[1]),
                       gaussian_1d(Coordinate(p[2], kernel.ny), RatOfInt(1),
                                   RatOfInt(0), Sigma3[2])),
                 gaussian_1d(Coordinate(p[3], kernel.nz), RatOfInt(1),
                             RatOfInt(0), Sigma3[3]))

\* a kernel whose three axes differ in length and in sigma
C9_Witness ==
  /\ KernelDone
  /\ kernel.nx = 2 /\ kernel.ny = 3 /\ kernel.nz = 4
  /\ ~IsScalar(kernel.sgm)
  /\ kernel.sgm = <<Rat(1, 2), Rat(2, 1), Rat(1, 2)>>
  /\ kernel.f[<<1, 2, 3>>] = Exp(Rat(-41, 8))

(***************************************************************************)
(* Directory helper: properties                                            *)
(***************************************************************************)
MkDone == mk.pc = "make_directories"

\* The directories a call is to make: run, and under it subdir with the
\* directories between them
Targets == {mk.run} \cup {mk.run \o q : q \in Prefixes(mk.subdir)}

\* C10 as stated: from any filesystem state a call creates the base
\* directory and the subdirectory with the parents beneath the base, and a
\* second call with the same arguments does not raise and changes nothing
C10_FromAnyState ==
  MkDone =>
    /\ mk.raised = "none"
    /\ Targets \subseteq fs.dirs
    /\ mk.again => fs = mk.before

\* C10 as amended: from a filesystem state where the parent of run is a
\* directory and no target is a regular file, a call raises nothing and
\* leaves exactly the directories there were and the targets, and the files
\* as they were; called again with the same arguments it raises nothing and
\* changes nothing.  From every other state the first call raises.
C10_Precondition ==
  /\ IsDir(mk.before, Parent(mk.run))
  /\ Targets \cap mk.before.files = {}

C10_Idempotent ==
  MkDone =>
    /\ C10_Precondition =>
         /\ mk.raised = "none"
         /\ fs = [dirs |-> mk.before.dirs \cup Targets, files |-> mk.before.files]
         /\ mk.again => fs = mk.before
    /\ ~C10_Precondition => mk.raised # "none"

\* the second of two calls that make out/run/sub/deep
C10_Witness ==
  /\ MkDone /\ mk.again /\ C10_Precondition
  /\ mk.run = <<Name("out"), Name("run")>>
  /\ mk.subdir = <<Name("sub"), Name("deep")>>
  /\ mk.raised = "none"
  /\ fs = mk.before

(***************************************************************************)
(* Logging bootstrap, timing decorator, exceptions: properties             *)
(***************************************************************************)
\* C5: after any sequence of calls of logger the handlers of the root
\* logger are those the last call asked for: the console handler alone, or
\* the file handler of logstem.log and the console handler
C5_LastCallWins ==
  (lg.pc = "logger" /\ lg.raised = "none") =>
    root.handlers = Handlers(lg.logstem, lg.log)

\* C6: when f returns, the wrapper returns the value of f after passing
\* exactly one elapsed-time line to logging.info, which every handler of a
\* root logger at level INFO writes once; nothing is logged before f has
\* returned; when f raises, the error of f reaches the caller as it is
C6_TimeitTransparent ==
  /\ timer.pc = "returned" =>
       /\ timer.outcome.kind = "return"
       /\ timer.ret = timer.outcome.value
       /\ Len(timer.info) = 1
       /\ \E elapsed \in 0..clock : timer.info[1] = ElapsedMessage(elapsed)
       /\ root.level = "INFO" =>
            timer.lines = [i \in 1..Len(root.handlers) |->
                             [handler |-> root.handlers[i], msg |-> timer.info[1]]]
  /\ timer.info # <<>> => timer.outcome.kind = "return"
  /\ timer.pc \in {"f_running", "f_returned"} => timer.info = <<>>
  /\ timer.pc = "raised" =>
       /\ timer.outcome.kind = "raise"
       /\ timer.raised = timer.outcome
       /\ timer.info = <<>>

\* f took a while and returned "picks" with the file logging set up
C6_Witness ==
  /\ timer.pc = "returned"
  /\ timer.ret = "picks"
  /\ timer.info = <<ElapsedMessage(2)>>
  /\ Len(timer.lines) = 2

StartsWith(text, prefix) ==
  Len(text) >= Len(prefix) /\ SubSeq(text, 1, Len(prefix)) = prefix

\* "All available data had gaps"
C7_PrimaryPrefix ==
    <<"A", "l", "l", " ", "a", "v", "a", "i", "l", "a", "b", "l", "e", " ",
      "d", "a", "t", "a", " ", "h", "a", "d", " ", "g", "a", "p", "s">>

\* a tab, then "All available data for this time period contains gaps"
C7_SecondaryPrefix ==
    <<"\t">>
    \o
    <<"A", "l", "l", " ", "a", "v", "a", "i", "l", "a", "b", "l", "e", " ",
      "d", "a", "t", "a", " ", "f", "o", "r", " ", "t", "h", "i", "s", " ",
      "t", "i", "m", "e", " ", "p", "e", "r", "i", "o", "d", " ", "c", "o",
      "n", "t", "a", "i", "n", "s", " ", "g", "a", "p", "s">>

\* the primary message of the message table
C7_TablePrimary ==
    <<"A", "l", "l", " ", "a", "v", "a", "i", "l", "a", "b", "l", "e", " ",
      "d", "a", "t", "a", " ", "h", "a", "d", " ", "g", "a", "p", "s", " ",
      "f", "o", "r", " ", "t", "h", "i", "s", " ", "t", "i", "m", "e", "s",
      "t", "e", "p", ".", "\n", " ", "O", "R", ":", " ", "n", "o", " ", "d",
      "a", "t", "a", " ", "p", "r", "e", "s", "e", "n", "t", " ", "i", "n",
      " ", "t", "h", "e", " ", "a", "r", "c", "h", "i", "v", "e", " ", "f",
      "o", "r", " ", "t", "h", "e", " ", "s", "e", "l", "e", "c", "t", "e",
      "d", " ", "s", "t", "a", "t", "i", "o", "n", "s", ".">>

\* C7: a DataGapException has a primary message that begins with "All
\* available data had gaps" and is the message of the table, and a
\* secondary message msg that begins with a tab and "All available data for
\* this time period contains gaps"
C7_DataGapMessages ==
  (timer.pc = "raised" /\ timer.raised.value.kind = "DataGapException") =>
    LET e == timer.raised.value
    IN  /\ StartsWith(e.args[1], C7_PrimaryPrefix)
        /\ e.args[1] = C7_TablePrimary
        /\ StartsWith(e.msg, C7_SecondaryPrefix)
====
